---- MODULE Spec2Model ----
(***************************************************************************)
(* Model of supervised_learning/logistic_regression.py: the                *)
(* LogisticRegression object (fit / predict / get_feature_params), its     *)
(* pure functions (_logistic_function, _cost_function) and the optimizer   *)
(* contract it is wired to (GradientDescent, OptimizerCostGraph).          *)
(*                                                                         *)
(* Numbers.  Feature values, labels and weights are small integers.  The   *)
(* logistic function and the logarithm are tabulated in thousandths        *)
(* (per-mille, rounded down), and a float is a record [k, v] whose kind k  *)
(* is "fin", "pinf", "ninf" or "nan" so that IEEE-754 infinities and NaN   *)
(* produced by np.log(0) are kept apart from finite values.                *)
(*                                                                         *)
(* Arrays.  numpy arrays are objects: self._coeff = self._weights[1:] is a *)
(* view that shares the buffer of self._weights.  The model keeps a heap   *)
(* of array buffers and references into it, so that sharing is visible.    *)
(***************************************************************************)
EXTENDS Integers, Sequences, FiniteSets, TLC

(***************************************************************************)
(* Bounds of the model                                                     *)
(***************************************************************************)
MaxRows == 1
MaxFeatures == 1
NumIds == 2
MaxCostRows == 2
MaxCostCols == 2
MaxIterations == 3
MaxCadence == 2
OptRows == 2

XVals == {0, 1}
WVals == {-1, 1}
Statuses == {"CONVERGED", "MAX_ITERATIONS_REACHED"}
Hints == {"hintA", "hintB"}
PredVals == {0, 500, 1000}
Labels == {0, 1}
LearningRates == {1000, 4000}
Tolerances == {1, 100}

NoRef == 0
None == <<>>

VARIABLES
  heap,        \* array buffers: heap[id] is the content, <<>> when free
  weightsRef,  \* self._weights: a buffer id, NoRef for None
  intercept,   \* self._intercept: <<>> for None, <<v>> for the scalar v
  coeffRef,    \* self._coeff: the buffer it is a [1:] view of, NoRef for None
  callerHolds, \* the caller holds the array get_feature_params returned and
               \* that array still is self._coeff
  lastOp,      \* the call that ran last
  outcome,     \* how it ended: "returned", "returned_none" or the error raised
  result,      \* what it returned (a vector), <<>> otherwise
  argX,        \* the caller's X as passed to the last fit / predict
  callerX,     \* the caller's X after that call
  modelX,      \* the matrix handed to the model function / optimizer
  optInit,     \* initial parameters handed to optimizer.optimize
  optRet,      \* parameters optimizer.optimize returned
  status,      \* status optimizer.optimize returned
  printed,     \* lines printed by the last fit call
  hintsCalls,  \* calls of optimizer.converge_hints() in the last fit call
  hintRet,     \* what converge_hints() returned, "" when it was not called
  refit,       \* the last fit call found parameters of an earlier fit
  logisticCalls, \* calls of _logistic_function in the last call
  dotComputed, \* the dot product of X with the weights was computed
  nfeat,       \* feature count of the last fit call, -1 before any
  fitOk,       \* the last fit call ran to completion
  fitWeights,  \* weights stored by the last completed fit
  cPred,       \* _cost_function: the predictions passed (thousandths)
  cY,          \* _cost_function: the labels passed
  cCost,       \* _cost_function: the cost returned
  cGrad,       \* _cost_function: the gradient returned
  optCfg,      \* optimizer runs: the inputs and configuration of both runs
  gd,          \* optimizer runs: the run of GradientDescent alone
  cg           \* optimizer runs: the run of OptimizerCostGraph(GradientDescent)

vars == <<heap, weightsRef, intercept, coeffRef, callerHolds, lastOp, outcome,
          result, argX, callerX, modelX, optInit, optRet, status, printed,
          hintsCalls, hintRet, refit, logisticCalls, dotComputed, nfeat,
          fitOk, fitWeights, cPred, cY, cCost, cGrad, optCfg, gd, cg>>

otherVars == <<cPred, cY, cCost, cGrad, optCfg, gd, cg>>

(***************************************************************************)
(* Matrices: [ncols, rows]; ncols is kept because a matrix with no rows    *)
(* still has a shape (0, ncols).                                           *)
(***************************************************************************)
VecsOver(S, n) == [1..n -> S]

\* the matrix with c columns and the rows r
Mat(c, r) == [ncols |-> c, rows |-> r]

\* the row lists of the matrices of shape (m, c)
RowsOf(m, c) == [1..m -> VecsOver(XVals, c)]

EmptyMatrix == [ncols |-> 0, rows |-> <<>>]

RECURSIVE SumTo(_, _)
SumTo(f, n) == IF n = 0 THEN 0 ELSE f[n] + SumTo(f, n - 1)

Zeros(n) == [i \in 1..n |-> 0]

\* a slip: the column of ones is appended instead of put at index 0
InsertBiasAppended(X) ==
  [ncols |-> X.ncols + 1,
   rows  |-> [i \in 1..Len(X.rows) |-> X.rows[i] \o <<1>>]]

\* np.insert(X, 0, 1, axis=1): a new array with a column of ones at index 0
InsertBias(X) ==
  [ncols |-> X.ncols + 1,
   rows  |-> [i \in 1..Len(X.rows) |-> <<1>> \o X.rows[i]]]

Min(a, b) == IF a < b THEN a ELSE b

\* a slip: shapes that are not aligned are silently cut to the shorter one
NpDotTruncating(X, theta) ==
  IF theta = None
    THEN IF Len(X.rows) = 0 \/ X.ncols = 0
           THEN [err |-> "ok", computed |-> FALSE, val |-> <<>>]
           ELSE [err |-> "TypeError", computed |-> FALSE, val |-> <<>>]
    ELSE [err |-> "ok", computed |-> TRUE,
          val |-> [i \in 1..Len(X.rows) |->
                    SumTo([j \in 1..Min(X.ncols, Len(theta)) |->
                             X.rows[i][j] * theta[j]],
                          Min(X.ncols, Len(theta)))]]

\* np.dot(X, theta).  theta = None is converted to a 0-d object array and the
\* product is an elementwise multiply: it raises TypeError on the first
\* element, and returns an empty array when X has no element.  Otherwise the
\* shapes must be aligned (ValueError) before anything is computed.
NpDot(X, theta) ==
  IF theta = None
    THEN IF Len(X.rows) = 0 \/ X.ncols = 0
           THEN [err |-> "ok", computed |-> FALSE, val |-> <<>>]
           ELSE [err |-> "TypeError", computed |-> FALSE, val |-> <<>>]
    ELSE IF X.ncols # Len(theta)
           THEN [err |-> "ValueError", computed |-> FALSE, val |-> <<>>]
           ELSE [err |-> "ok", computed |-> TRUE,
                 val |-> [i \in 1..Len(X.rows) |->
                           SumTo([j \in 1..X.ncols |-> X.rows[i][j] * theta[j]],
                                 X.ncols)]]

\* 1 / (1 + exp(-v)) in thousandths, rounded down
Sigmoid(v) ==
  CASE v <= -7 -> 0
    [] v = -6 -> 2
    [] v = -5 -> 6
    [] v = -4 -> 17
    [] v = -3 -> 47
    [] v = -2 -> 119
    [] v = -1 -> 268
    [] v = 0  -> 500
    [] v = 1  -> 731
    [] v = 2  -> 880
    [] v = 3  -> 952
    [] v = 4  -> 982
    [] v = 5  -> 993
    [] v = 6  -> 997
    [] OTHER  -> 999

\* LogisticRegression._logistic_function(X, theta)
LogisticFunction(X, theta) ==
  LET d == NpDot(X, theta)
  IN  [err |-> d.err, computed |-> d.computed,
       val |-> [i \in 1..Len(d.val) |-> Sigmoid(d.val[i])]]

(***************************************************************************)
(* The object's fields, read through the heap                              *)
(***************************************************************************)
\* self._intercept = self._weights[0]
InterceptOf(w) == <<w[1]>>

\* a slip: the slice keeps the intercept
CoeffOfWithIntercept(w) == w

\* self._coeff = self._weights[1:], as a value
CoeffOf(w) == Tail(w)

Weights == IF weightsRef = NoRef THEN None ELSE heap[weightsRef]
Coeff == IF coeffRef = NoRef THEN None ELSE CoeffOf(heap[coeffRef])

\* a buffer id not in use: the old buffer of self._weights is released by the
\* assignment unless self._coeff still views it
FreshId == CHOOSE i \in 1..NumIds : i # coeffRef

\* buffers nothing refers to any more are released
Collect(h, refs) == [i \in 1..NumIds |-> IF i \in refs THEN h[i] ELSE <<>>]

\* LogisticRegression.__init__
Init ==
  /\ heap = [i \in 1..NumIds |-> <<>>]
  /\ weightsRef = NoRef
  /\ intercept = None
  /\ coeffRef = NoRef
  /\ callerHolds = FALSE
  /\ lastOp = "init"
  /\ outcome = "returned"
  /\ result = <<>>
  /\ argX = EmptyMatrix
  /\ callerX = EmptyMatrix
  /\ modelX = EmptyMatrix
  /\ optInit = <<>>
  /\ optRet = <<>>
  /\ status = "none"
  /\ printed = <<>>
  /\ hintsCalls = 0
  /\ hintRet = ""
  /\ refit = FALSE
  /\ logisticCalls = 0
  /\ dotComputed = FALSE
  /\ nfeat = -1
  /\ fitOk = FALSE
  /\ fitWeights = <<>>
  /\ cPred = <<>>
  /\ cY = <<>>
  /\ cCost = <<>>
  /\ cGrad = <<>>
  /\ optCfg = <<>>
  /\ gd = <<>>
  /\ cg = <<>>

\* the optimizer is not called: its record of the last call is cleared
NoOptimizerCall ==
  /\ optInit' = <<>>
  /\ optRet' = <<>>
  /\ status' = "none"
  /\ printed' = <<>>
  /\ hintsCalls' = 0
  /\ hintRet' = ""
  /\ refit' = FALSE

\* a slip: the start vector is not the zero vector
InitialWeightsOnes(num_features) == [i \in 1..num_features |-> 1]

\* num_features = np.shape(X)[1]; self._weights = np.zeros((num_features, ))
InitialWeights(num_features) == Zeros(num_features)

\* a slip: the test is inverted
ShouldWarnInverted(st) == st = "CONVERGED"

\* status != Optimizer.Status.CONVERGED
ShouldWarn(st) == st # "CONVERGED"

\* converge_hints() is called only on the branch that warns
HintsFor(st) == IF ShouldWarn(st) THEN Hints ELSE {""}

\* print("WARNING: Optimizer did not converge:", self._optimizer.converge_hints())
Warning(hint) == <<"WARNING: Optimizer did not converge:", hint>>

\* LogisticRegression.fit(X, y) when optimizer.optimize returns (w, st);
\* hint is what optimizer.converge_hints() returns if it is called.
FitReturns(X, w, st, hint) ==
  LET Xb == InsertBias(X)
      num_features == Xb.ncols
      id == FreshId
  IN  /\ Len(w) = num_features
      /\ weightsRef' = id
      /\ intercept' = InterceptOf(w)
      /\ coeffRef' = id
      /\ callerHolds' = FALSE
      /\ heap' = Collect([heap EXCEPT ![id] = w], {id})
      /\ printed' = IF ShouldWarn(st) THEN <<Warning(hint)>> ELSE <<>>
      /\ hintsCalls' = IF ShouldWarn(st) THEN 1 ELSE 0
      /\ hintRet' = IF ShouldWarn(st) THEN hint ELSE ""
      /\ refit' = (weightsRef # NoRef)
      /\ lastOp' = "fit"
      /\ outcome' = "returned_none"
      /\ result' = <<>>
      /\ argX' = X
      /\ callerX' = X
      /\ modelX' = Xb
      /\ optInit' = InitialWeights(num_features)
      /\ optRet' = w
      /\ status' = st
      /\ logisticCalls' = 0
      /\ dotComputed' = FALSE
      /\ nfeat' = X.ncols
      /\ fitOk' = TRUE
      /\ fitWeights' = w
      /\ UNCHANGED otherVars

\* LogisticRegression.fit(X, y) when optimizer.optimize raises: the zero
\* vector assigned before the call stays in self._weights, the other two
\* fields keep what they had.
FitRaises(X) ==
  LET Xb == InsertBias(X)
      num_features == Xb.ncols
      id == FreshId
  IN  /\ weightsRef' = id
      /\ heap' = Collect([heap EXCEPT ![id] = InitialWeights(num_features)],
                         {id, coeffRef})
      /\ printed' = <<>>
      /\ hintsCalls' = 0
      /\ hintRet' = ""
      /\ refit' = (weightsRef # NoRef)
      /\ lastOp' = "fit"
      /\ outcome' = "OptimizerError"
      /\ result' = <<>>
      /\ argX' = X
      /\ callerX' = X
      /\ modelX' = Xb
      /\ optInit' = InitialWeights(num_features)
      /\ optRet' = <<>>
      /\ status' = "none"
      /\ logisticCalls' = 0
      /\ dotComputed' = FALSE
      /\ nfeat' = X.ncols
      /\ fitOk' = FALSE
      /\ UNCHANGED <<intercept, coeffRef, callerHolds, fitWeights, otherVars>>

\* LogisticRegression.predict(X)
Predict(X) ==
  LET Xb == InsertBias(X)
      r == LogisticFunction(Xb, Weights)
  IN  /\ lastOp' = "predict"
      /\ outcome' = IF r.err = "ok" THEN "returned" ELSE r.err
      /\ result' = r.val
      /\ argX' = X
      /\ callerX' = X
      /\ modelX' = Xb
      /\ logisticCalls' = 1
      /\ dotComputed' = r.computed
      /\ NoOptimizerCall
      /\ UNCHANGED <<heap, weightsRef, intercept, coeffRef, callerHolds, nfeat,
                     fitOk, fitWeights, otherVars>>

\* LogisticRegression.get_feature_params(): returns the self._coeff object
\* itself, which the caller then holds
GetFeatureParams ==
  /\ lastOp' = "get_feature_params"
  /\ outcome' = IF coeffRef = NoRef THEN "returned_none" ELSE "returned"
  /\ result' = Coeff
  /\ callerHolds' = (coeffRef # NoRef)
  /\ argX' = EmptyMatrix
  /\ callerX' = EmptyMatrix
  /\ modelX' = EmptyMatrix
  /\ logisticCalls' = 0
  /\ dotComputed' = FALSE
  /\ NoOptimizerCall
  /\ UNCHANGED <<heap, weightsRef, intercept, coeffRef, nfeat, fitOk,
                 fitWeights, otherVars>>

\* The caller assigns p[i] = v in the array p that get_feature_params
\* returned; p is the view self._weights[1:], so element i of p is element
\* i + 1 of the buffer it shares.
CallerWrite(i, v) ==
  /\ callerHolds
  /\ i \in 1..(Len(heap[coeffRef]) - 1)
  /\ heap' = [heap EXCEPT ![coeffRef][i + 1] = v]
  /\ lastOp' = "caller_write"
  /\ outcome' = "returned"
  /\ result' = <<>>
  /\ argX' = EmptyMatrix
  /\ callerX' = EmptyMatrix
  /\ modelX' = EmptyMatrix
  /\ logisticCalls' = 0
  /\ dotComputed' = FALSE
  /\ NoOptimizerCall
  /\ UNCHANGED <<weightsRef, intercept, coeffRef, callerHolds, nfeat, fitOk,
                 fitWeights, otherVars>>

Next ==
  \/ \E m \in 0..MaxRows, c \in 0..MaxFeatures :
       \E r \in RowsOf(m, c), w \in VecsOver(WVals, c + 1), st \in Statuses :
         \E h \in HintsFor(st) : FitReturns(Mat(c, r), w, st, h)
  \/ \E m \in 0..MaxRows, c \in 0..MaxFeatures :
       \E r \in RowsOf(m, c) : FitRaises(Mat(c, r))
  \/ \E m \in 0..MaxRows, c \in 0..MaxFeatures :
       \E r \in RowsOf(m, c) : Predict(Mat(c, r))
  \/ GetFeatureParams
  \/ \E i \in 1..MaxFeatures, v \in WVals : CallerWrite(i, v)

Spec == Init /\ [][Next]_vars

(***************************************************************************)
(* Properties of the LogisticRegression object, checked under Spec         *)
(***************************************************************************)
Returned == outcome \in {"returned", "returned_none"}
NeverFitted == fitWeights = <<>>

\* C1: on an instance on which no fit call has completed, every predict(X)
\* fails: it returns no prediction vector and does not evaluate the logistic
\* function on the absent weights.
C1_PredictBeforeFitFails ==
  (lastOp = "predict" /\ NeverFitted) =>
    (~Returned /\ result = <<>> /\ logisticCalls = 0)

\* C2: the fitted state is never partially valid: either weights, intercept
\* and coefficients are all unset, or all three are set, with intercept =
\* weights[0] and coefficients = weights[1:] for the weights returned by the
\* most recent completed fit.
C2_NeverPartiallyValid ==
  \/ (weightsRef = NoRef /\ intercept = None /\ coeffRef = NoRef)
  \/ (/\ weightsRef # NoRef /\ intercept # None /\ coeffRef # NoRef
      /\ Weights = fitWeights
      /\ intercept = <<fitWeights[1]>>
      /\ Coeff = Tail(fitWeights))

\* C3: a fit that completes hands the optimizer the all-zero vector of length
\* features + 1, whatever an earlier fit left, and stores exactly the weights
\* the optimizer returned, their first element as intercept and the rest as
\* coefficients.
C3_RefitOverwrites ==
  (lastOp = "fit" /\ outcome = "returned_none") =>
    /\ optInit = [i \in 1..(argX.ncols + 1) |-> 0]
    /\ Weights = optRet
    /\ intercept = <<optRet[1]>>
    /\ Coeff = Tail(optRet)
    /\ coeffRef = weightsRef

C3_Witness ==
  /\ lastOp = "fit" /\ outcome = "returned_none" /\ refit
  /\ argX.ncols = MaxFeatures
  /\ \E i \in 1..Len(optRet) : optRet[i] = -1

\* C4: when the optimizer returns a status other than CONVERGED, fit returns
\* normally, prints exactly one warning that carries what converge_hints()
\* returned, and stores the returned parameters; when the status is
\* CONVERGED it prints nothing and does not call converge_hints().
C4_WarnsOnNonConvergence ==
  (lastOp = "fit" /\ status \in Statuses) =>
    /\ outcome = "returned_none"
    /\ Weights = optRet /\ intercept = <<optRet[1]>> /\ Coeff = Tail(optRet)
    /\ IF status # "CONVERGED"
         THEN /\ Len(printed) = 1
              /\ printed[1][Len(printed[1])] = hintRet
              /\ hintRet \in Hints
              /\ hintsCalls = 1
         ELSE printed = <<>> /\ hintsCalls = 0

C4_Witness ==
  /\ lastOp = "fit" /\ status = "MAX_ITERATIONS_REACHED"
  /\ Len(printed) = 1 /\ hintRet = "hintB" /\ weightsRef # NoRef

\* C5: a predict(X) on an instance holding weights, with an X whose feature
\* count differs from that of the fit, fails with an error, computes no dot
\* product, returns nothing and leaves weights, intercept and coefficients
\* as they were.
C5_ShapeMismatchFails ==
  [][(lastOp' = "predict" /\ weightsRef # NoRef /\ argX'.ncols # nfeat) =>
       /\ outcome' = "ValueError"
       /\ ~dotComputed'
       /\ result' = <<>>
       /\ UNCHANGED <<heap, weightsRef, intercept, coeffRef>>]_vars

C5_Witness ==
  /\ lastOp = "predict" /\ fitOk /\ argX.ncols # nfeat
  /\ Len(argX.rows) > 0 /\ outcome = "ValueError"

\* C6: in every fit and predict call the matrix handed to the model function
\* is the caller's X with exactly one column of ones put in front and the
\* caller's columns after it in order, and the caller's X is left as it was.
C6_BiasColumnPrepended ==
  (lastOp \in {"fit", "predict"}) =>
    /\ modelX.ncols = argX.ncols + 1
    /\ Len(modelX.rows) = Len(argX.rows)
    /\ \A i \in 1..Len(argX.rows) :
         /\ Len(modelX.rows[i]) = argX.ncols + 1
         /\ modelX.rows[i][1] = 1
         /\ \A j \in 1..argX.ncols : modelX.rows[i][j + 1] = argX.rows[i][j]
    /\ callerX = argX

C6_Witness ==
  /\ lastOp = "predict" /\ outcome = "returned"
  /\ Len(argX.rows) > 0 /\ argX.ncols > 0 /\ argX.rows[1][1] = 0

C10_OnlyFitChangesParameters ==
  fitOk =>
    /\ Weights = fitWeights
    /\ (lastOp = "predict" =>
          result = LogisticFunction(InsertBias(argX), fitWeights).val)

(***************************************************************************)
(* Floats.  A float is [k, v]: k = "fin" with v in thousandths, or "pinf", *)
(* "ninf", "nan" (v = 0) as IEEE-754 arithmetic in numpy produces them.    *)
(***************************************************************************)
Fin(v) == [k |-> "fin", v |-> v]
PInf == [k |-> "pinf", v |-> 0]
NInf == [k |-> "ninf", v |-> 0]
NaN == [k |-> "nan", v |-> 0]

FNeg(a) ==
  CASE a.k = "fin" -> Fin(0 - a.v)
    [] a.k = "pinf" -> NInf
    [] a.k = "ninf" -> PInf
    [] OTHER -> NaN

FAdd(a, b) ==
  CASE a.k = "nan" \/ b.k = "nan" -> NaN
    [] a.k = "fin" /\ b.k = "fin" -> Fin(a.v + b.v)
    [] a.k = "fin" -> b
    [] b.k = "fin" -> a
    [] a.k = b.k -> a
    [] OTHER -> NaN

\* n * a for an integer n: 0 * inf is nan
FMulInt(n, a) ==
  CASE a.k = "nan" -> NaN
    [] a.k = "fin" -> Fin(n * a.v)
    [] n = 0 -> NaN
    [] n > 0 -> a
    [] OTHER -> FNeg(a)

\* 1/m * a for a positive integer m
FDivInt(a, m) == IF a.k = "fin" THEN Fin(a.v \div m) ELSE a

\* np.dot of an integer vector with a float vector
RECURSIVE FDot(_, _, _)
FDot(n, a, len) ==
  IF len = 0 THEN Fin(0)
  ELSE FAdd(FDot(n, a, len - 1), FMulInt(n[len], a[len]))

\* np.log(p) for p in thousandths, rounded down, tabulated on the values
\* predictions take in the model (PredVals, Sigmoid and their complements);
\* log(0) is -inf: numpy warns and goes on
NpLog(p) ==
  CASE p = 0 -> NInf
    [] p = 1 -> Fin(-6908)
    [] p = 2 -> Fin(-6215)
    [] p = 3 -> Fin(-5810)
    [] p = 6 -> Fin(-5116)
    [] p = 7 -> Fin(-4962)
    [] p = 17 -> Fin(-4075)
    [] p = 18 -> Fin(-4018)
    [] p = 47 -> Fin(-3058)
    [] p = 48 -> Fin(-3037)
    [] p = 119 -> Fin(-2129)
    [] p = 120 -> Fin(-2121)
    [] p = 268 -> Fin(-1317)
    [] p = 269 -> Fin(-1314)
    [] p = 500 -> Fin(-694)
    [] p = 731 -> Fin(-314)
    [] p = 732 -> Fin(-312)
    [] p = 880 -> Fin(-128)
    [] p = 881 -> Fin(-127)
    [] p = 952 -> Fin(-50)
    [] p = 953 -> Fin(-49)
    [] p = 982 -> Fin(-19)
    [] p = 983 -> Fin(-18)
    [] p = 993 -> Fin(-8)
    [] p = 994 -> Fin(-7)
    [] p = 997 -> Fin(-4)
    [] p = 998 -> Fin(-3)
    [] p = 999 -> Fin(-2)
    [] p = 1000 -> Fin(0)

\* LogisticRegression._cost_function(X, pred, y) for len(y) > 0
CostFunction(X, pred, y) ==
  LET m == Len(y)
      logp == [i \in 1..m |-> NpLog(pred[i])]
      log1mp == [i \in 1..m |-> NpLog(1000 - pred[i])]
      oneMinusY == [i \in 1..m |-> 1 - y[i]]
      cost == FDivInt(FAdd(FNeg(FDot(y, logp, m)),
                           FNeg(FDot(oneMinusY, log1mp, m))), m)
      gradient == [j \in 1..X.ncols |->
                    FDivInt(Fin(SumTo([i \in 1..m |->
                                        X.rows[i][j] * (pred[i] - 1000 * y[i])],
                                      m)), m)]
  IN  [cost |-> cost, gradient |-> gradient]

ObjectUntouched ==
  UNCHANGED <<heap, weightsRef, intercept, coeffRef, callerHolds, result,
              callerX, modelX, optInit, optRet, status, printed, hintsCalls,
              hintRet, refit, logisticCalls, dotComputed, nfeat, fitOk,
              fitWeights>>

\* the inputs of _cost_function: X with one row per label, predictions and
\* labels of the same length
InitCost ==
  \E m \in 0..MaxCostRows, c \in 1..MaxCostCols :
  \E r \in RowsOf(m, c), pr \in VecsOver(PredVals, m), y \in VecsOver(Labels, m) :
    /\ heap = [i \in 1..NumIds |-> <<>>]
    /\ weightsRef = NoRef
    /\ intercept = None
    /\ coeffRef = NoRef
    /\ callerHolds = FALSE
    /\ lastOp = "init"
    /\ outcome = "returned"
    /\ result = <<>>
    /\ argX = Mat(c, r)
    /\ callerX = EmptyMatrix
    /\ modelX = EmptyMatrix
    /\ optInit = <<>>
    /\ optRet = <<>>
    /\ status = "none"
    /\ printed = <<>>
    /\ hintsCalls = 0
    /\ hintRet = ""
    /\ refit = FALSE
    /\ logisticCalls = 0
    /\ dotComputed = FALSE
    /\ nfeat = -1
    /\ fitOk = FALSE
    /\ fitWeights = <<>>
    /\ cPred = pr
    /\ cY = y
    /\ cCost = <<>>
    /\ cGrad = <<>>
    /\ optCfg = <<>>
    /\ gd = <<>>
    /\ cg = <<>>

\* a call _cost_function(argX, cPred, cY); m = len(y) = 0 makes 1/m raise
CostFunctionCall ==
  /\ lastOp = "init"
  /\ lastOp' = "_cost_function"
  /\ IF Len(cY) = 0
       THEN /\ outcome' = "ZeroDivisionError"
            /\ cCost' = <<>>
            /\ cGrad' = <<>>
       ELSE /\ outcome' = "returned"
            /\ cCost' = <<CostFunction(argX, cPred, cY).cost>>
            /\ cGrad' = CostFunction(argX, cPred, cY).gradient
  /\ ObjectUntouched
  /\ UNCHANGED <<argX, cPred, cY, optCfg, gd, cg>>

NextCost == CostFunctionCall

SpecCost == InitCost /\ [][NextCost]_vars

\* C7: for labels in {0,1} and any predictions, exactly 0 and exactly 1
\* included, the cost and the gradient that _cost_function returns are
\* finite.
C7_CostAndGradientFinite ==
  (lastOp = "_cost_function" /\ Len(cY) > 0) =>
    /\ outcome = "returned"
    /\ cCost[1].k = "fin"
    /\ \A j \in 1..Len(cGrad) : cGrad[j].k = "fin"

(***************************************************************************)
(* The optimizer contract: GradientDescent and OptimizerCostGraph.         *)
(* optimize(X, y, initial_params, model_fn, cost_fn) -> (params, status);  *)
(* the model function is _logistic_function and the cost function is       *)
(* _cost_function, as fit passes them.  Parameters are integers, the       *)
(* learning rate and the tolerance are in thousandths.                     *)
(***************************************************************************)
Abs(x) == IF x < 0 THEN 0 - x ELSE x

\* the state of a run before its first iteration
GDStart(cfg) ==
  [params |-> Zeros(cfg.X.ncols), iter |-> 0, costPrev |-> <<>>,
   cost |-> <<>>, status |-> "running"]

\* one iteration of GradientDescent with an iteration budget of budget:
\* predictions, cost and gradient, update, convergence check, budget check
GDIteration(cfg, st, budget) ==
  LET pred == LogisticFunction(cfg.X, st.params).val
      cf == CostFunction(cfg.X, pred, cfg.y)
      newParams == [j \in 1..Len(st.params) |->
                      st.params[j] - ((cfg.lr * cf.gradient[j].v) \div 1000000)]
      it == st.iter + 1
      newStatus ==
        CASE cf.cost.k # "fin" -> "DIVERGED"
          [] /\ st.costPrev # <<>>
             /\ Abs(st.costPrev[1].v - cf.cost.v) < cfg.tol -> "CONVERGED"
          [] it >= budget -> "MAX_ITERATIONS_REACHED"
          [] OTHER -> "running"
  IN  [params |-> IF newStatus = "DIVERGED" THEN st.params ELSE newParams,
       iter |-> it, costPrev |-> <<cf.cost>>, cost |-> <<cf.cost>>,
       status |-> newStatus]

\* a slip: the wrapper runs the inner optimizer in whole chunks of
\* iterations_per_update iterations
InnerBudgetChunked(cfg) == ((cfg.maxIter + cfg.ipu - 1) \div cfg.ipu) * cfg.ipu

\* OptimizerCostGraph forwards the configuration of the inner optimizer as is
InnerBudget(cfg) == cfg.maxIter

\* the progress callback of OptimizerCostGraph: a sample every
\* iterations_per_update iterations
Observe(cfg, trace, it, cost) ==
  IF it % cfg.ipu = 0 THEN Append(trace, <<it, cost>>) ELSE trace

\* what OptimizerCostGraph.optimize returns: the inner optimizer's result
CostGraphResult(inner) == <<inner.params, inner.status>>

\* what GradientDescent.optimize returns
GDResult(st) == <<st.params, st.status>>

\* the inputs and configuration of a run: X as fit hands it over (one
\* feature and the bias column), labels, learning rate, tolerance, iteration
\* budget and iterations_per_update
OptConfig(r, y, lr, tol, n, k) ==
  [X |-> InsertBias(Mat(1, r)), y |-> y, lr |-> lr, tol |-> tol,
   maxIter |-> n, ipu |-> k]

InitOpt ==
  \E r \in RowsOf(OptRows, 1), y \in VecsOver(Labels, OptRows),
     lr \in LearningRates, tol \in Tolerances,
     n \in 1..MaxIterations, k \in 1..MaxCadence :
    /\ heap = [i \in 1..NumIds |-> <<>>]
    /\ weightsRef = NoRef
    /\ intercept = None
    /\ coeffRef = NoRef
    /\ callerHolds = FALSE
    /\ lastOp = "init"
    /\ outcome = "returned"
    /\ result = <<>>
    /\ argX = EmptyMatrix
    /\ callerX = EmptyMatrix
    /\ modelX = EmptyMatrix
    /\ optInit = <<>>
    /\ optRet = <<>>
    /\ status = "none"
    /\ printed = <<>>
    /\ hintsCalls = 0
    /\ hintRet = ""
    /\ refit = FALSE
    /\ logisticCalls = 0
    /\ dotComputed = FALSE
    /\ nfeat = -1
    /\ fitOk = FALSE
    /\ fitWeights = <<>>
    /\ cPred = <<>>
    /\ cY = <<>>
    /\ cCost = <<>>
    /\ cGrad = <<>>
    /\ optCfg = OptConfig(r, y, lr, tol, n, k)
    /\ gd = [run |-> GDStart(OptConfig(r, y, lr, tol, n, k)), ret |-> <<>>]
    /\ cg = [inner |-> GDStart(OptConfig(r, y, lr, tol, n, k)),
             trace |-> <<>>, ret |-> <<>>]

\* GradientDescent.optimize on its own: one iteration, and the return when
\* the run stops
GradientDescentStep ==
  /\ gd.run.status = "running"
  /\ LET st == GDIteration(optCfg, gd.run, optCfg.maxIter)
     IN  gd' = [run |-> st,
                ret |-> IF st.status = "running" THEN <<>> ELSE GDResult(st)]
  /\ lastOp' = "GradientDescent.optimize"
  /\ ObjectUntouched
  /\ UNCHANGED <<outcome, argX, cPred, cY, cCost, cGrad, optCfg, cg>>

\* OptimizerCostGraph.optimize: one iteration of the inner GradientDescent,
\* the callback, and the return when the inner run stops
CostGraphStep ==
  /\ cg.inner.status = "running"
  /\ LET st == GDIteration(optCfg, cg.inner, InnerBudget(optCfg))
     IN  cg' = [inner |-> st,
                trace |-> Observe(optCfg, cg.trace, st.iter, st.cost[1]),
                ret |-> IF st.status = "running" THEN <<>>
                        ELSE CostGraphResult(st)]
  /\ lastOp' = "OptimizerCostGraph.optimize"
  /\ ObjectUntouched
  /\ UNCHANGED <<outcome, argX, cPred, cY, cCost, cGrad, optCfg, gd>>

NextOpt == GradientDescentStep \/ CostGraphStep

SpecOpt == InitOpt /\ [][NextOpt]_vars

====
